---- MODULE Spec2Model ----
(***************************************************************************)
(* The LS-8 emulator of src/ls8/cpu.py as a state machine.                 *)
(*                                                                         *)
(* The state is the CPU object's fields (reg, ram, pc, ir, flags), the     *)
(* console output, the exception that ended the process (if any) and the   *)
(* position of run() in its loop body.  mar and mdr are written by every   *)
(* memory access and read by nothing, so they are left out.                *)
(*                                                                         *)
(* Python integers are unbounded: nothing but alu()'s final "&= 0xFF"      *)
(* reduces a value, so registers, memory cells and the program counter are *)
(* modelled as integers, not as bytes.                                     *)
(***************************************************************************)
EXTENDS Integers, Sequences, FiniteSets, TLC

VARIABLES
    reg,      \* self.reg: the eight registers
    ram,      \* self.ram: 256 cells
    pc,       \* self.pc
    ir,       \* self.ir
    flags,    \* self.flags (H0000LGE)
    out,      \* what print() has written, oldest first
    exc,      \* "none", or the exception that escaped run()
    fdiv,     \* <<>>, or <<r, n, d>>: register r holds the float n / d
    at,       \* where run() is: "poll", "check", "fetch" or "done"
    steps,    \* loop iterations started
    events,   \* clock changes and key presses observed so far
    polled,   \* what this iteration's poll observed: <<tick, key>>
    hist      \* the last HistLen deliveries / executed instructions

vars == <<reg, ram, pc, ir, flags, out, exc, fdiv, at, steps, events, polled, hist>>

\* ------------------------------------------------------------------ bounds
MaxEvents == 1
MaxSteps == 16
HistLen == 4

\* --------------------------------------------------------------- constants
Addr == 0..255
RegIdx == 0..7
IM == 5
IS == 6
SP == 7
HaltBit == 128
KeyPressed == 244
NoKey == -1

disp_table ==
    (160 :> "ADD") @@ (168 :> "AND") @@ (80 :> "CALL") @@
    (167 :> "CMP") @@ (102 :> "DEC") @@ (163 :> "DIV") @@
    (1 :> "HLT") @@ (101 :> "INC") @@ (82 :> "INT") @@
    (19 :> "IRET") @@ (85 :> "JEQ") @@ (90 :> "JGE") @@
    (87 :> "JGT") @@ (89 :> "JLE") @@ (88 :> "JLT") @@
    (84 :> "JMP") @@ (86 :> "JNE") @@ (131 :> "LD") @@
    (130 :> "LDI") @@ (164 :> "MOD") @@ (162 :> "MUL") @@
    (0 :> "NOP") @@ (105 :> "NOT") @@ (170 :> "OR") @@
    (70 :> "POP") @@ (72 :> "PRA") @@ (71 :> "PRN") @@
    (69 :> "PUSH") @@ (17 :> "RET") @@ (172 :> "SHL") @@
    (173 :> "SHR") @@ (132 :> "ST") @@ (161 :> "SUB") @@
    (171 :> "XOR")

\* The opcode of a mnemonic (disp_table read backwards), for writing programs.
Opc(name) == CHOOSE c \in DOMAIN disp_table : disp_table[c] = name

\* ------------------------------------------------- Python integer operators
RECURSIVE Pow2(_)
Pow2(n) == IF n <= 0 THEN 1 ELSE 2 * Pow2(n - 1)

RECURSIVE BitAnd(_, _)
BitAnd(x, y) ==
    IF x = 0 \/ y = 0 THEN 0
    ELSE (x % 2) * (y % 2) + 2 * BitAnd(x \div 2, y \div 2)

RECURSIVE BitOr(_, _)
BitOr(x, y) ==
    IF x = 0 THEN y
    ELSE IF y = 0 THEN x
    ELSE (IF x % 2 = 1 \/ y % 2 = 1 THEN 1 ELSE 0) + 2 * BitOr(x \div 2, y \div 2)

RECURSIVE BitXor(_, _)
BitXor(x, y) ==
    IF x = 0 THEN y
    ELSE IF y = 0 THEN x
    ELSE ((x + y) % 2) + 2 * BitXor(x \div 2, y \div 2)

\* x & 0b11111111, for any integer x (Python's & is two's complement).
Mask8(x) == x % 256

\* x & ~(1 << i)
ClearBit(x, i) == x - BitAnd(x, Pow2(i))

\* (x << n) & 0b11111111: the bits shifted past bit 7 are dropped by the mask.
ShlByte(x, n) == IF n >= 8 THEN 0 ELSE ((x % 256) * Pow2(n)) % 256

\* x >> n for x below 2^31
Shr(x, n) == IF n >= 31 THEN 0 ELSE x \div Pow2(n)

\* ------------------------------------------------------- the machine record
\* Handlers are written as functions from machine to machine.  Once an
\* exception is raised (exc # "none") the remaining statements do not run.
Cur ==
    [reg |-> reg, ram |-> ram, pc |-> pc, ir |-> ir, flags |-> flags,
     out |-> out, exc |-> exc, fdiv |-> fdiv]

Raise(m, e) == [m EXCEPT !.exc = e]

Running(m) == m.exc = "none"

\* self.ram[address] is legal for 0..255 (no negative address arises).
ram_ok(address) == address \in Addr

\* self.reg[r] is legal for 0..7.
reg_ok(r) == r \in RegIdx

ram_write(m, address, data) ==
    IF ~Running(m) THEN m
    ELSE IF ~ram_ok(address) THEN Raise(m, "IndexError")
    ELSE [m EXCEPT !.ram[address] = data]

HLT(m) == IF ~Running(m) THEN m ELSE [m EXCEPT !.flags = BitOr(@, HaltBit)]

\* --------------------------------------------------------------------- ALU
\* What "reg[reg_a] <op>= reg[reg_b]" leaves in reg[reg_a], before the mask.
alu_value(op, x, y) ==
    CASE op = "ADD" -> x + y
      [] op = "SUB" -> x - y
      [] op = "MUL" -> x * y
      [] op = "MOD" -> x % y
      [] op = "AND" -> BitAnd(x, y)
      [] op = "OR"  -> BitOr(x, y)
      [] op = "XOR" -> BitXor(x, y)
      [] op = "SHL" -> ShlByte(x, y)
      [] op = "SHR" -> Shr(x, y)
      [] op = "INC" -> x + 1
      [] op = "DEC" -> x - 1
      [] op = "NOT" -> (0 - x) - 1

Unary == {"INC", "DEC", "NOT"}
Binary == {"ADD", "SUB", "MUL", "AND", "OR", "XOR", "SHL", "SHR"}
AluOps == Unary \cup Binary \cup {"DIV", "MOD", "CMP"}

\* ADD, SUB, MUL, AND, OR, XOR, SHL, SHR
alu_binary(m, op, reg_a, reg_b) ==
    IF ~reg_ok(reg_a) \/ ~reg_ok(reg_b) THEN Raise(m, "IndexError")
    ELSE [m EXCEPT !.reg[reg_a] = alu_value(op, m.reg[reg_a], m.reg[reg_b])]

\* INC, DEC, NOT
alu_unary(m, op, reg_a) ==
    IF ~reg_ok(reg_a) THEN Raise(m, "IndexError")
    ELSE [m EXCEPT !.reg[reg_a] = alu_value(op, m.reg[reg_a], 0)]

\* The divide-by-zero branch without its call of HLT().
alu_zero_no_halt(m) == [m EXCEPT !.out = Append(@, <<"ERROR: DIVIDE BY ZERO", 0>>)]

alu_zero(m) == HLT([m EXCEPT !.out = Append(@, <<"ERROR: DIVIDE BY ZERO", 0>>)])

\* "/=" is true division: the register is left holding a float.
alu_DIV(m, reg_a, reg_b) ==
    IF ~reg_ok(reg_b) THEN Raise(m, "IndexError")
    ELSE IF m.reg[reg_b] = 0 THEN alu_zero(m)
    ELSE IF ~reg_ok(reg_a) THEN Raise(m, "IndexError")
    ELSE [m EXCEPT !.fdiv = <<reg_a, m.reg[reg_a], m.reg[reg_b]>>]

alu_MOD(m, reg_a, reg_b) ==
    IF ~reg_ok(reg_b) THEN Raise(m, "IndexError")
    ELSE IF m.reg[reg_b] = 0 THEN alu_zero(m)
    ELSE IF ~reg_ok(reg_a) THEN Raise(m, "IndexError")
    ELSE [m EXCEPT !.reg[reg_a] = alu_value("MOD", m.reg[reg_a], m.reg[reg_b])]

\* One "if c: flags |= bit / else: flags &= ~bit" of CMP.
SetOrClear(f, c, bit) == IF c THEN BitOr(f, bit) ELSE f - BitAnd(f, bit)

\* CMP with the Less-than and Greater-than bits exchanged.
alu_CMP_swapped(m, reg_a, reg_b) ==
    IF ~reg_ok(reg_a) \/ ~reg_ok(reg_b) THEN Raise(m, "IndexError")
    ELSE LET a == m.reg[reg_a]
             b == m.reg[reg_b]
             f1 == SetOrClear(m.flags, a < b, 2)
             f2 == SetOrClear(f1, a > b, 4)
             f3 == SetOrClear(f2, a = b, 1)
         IN [m EXCEPT !.flags = f3]

alu_CMP(m, reg_a, reg_b) ==
    IF ~reg_ok(reg_a) \/ ~reg_ok(reg_b) THEN Raise(m, "IndexError")
    ELSE LET a == m.reg[reg_a]
             b == m.reg[reg_b]
             f1 == SetOrClear(m.flags, a < b, 4)
             f2 == SetOrClear(f1, a > b, 2)
             f3 == SetOrClear(f2, a = b, 1)
         IN [m EXCEPT !.flags = f3]

\* The closing "self.reg[reg_a] &= 0b11111111": a TypeError on a float.
alu_mask(m, reg_a) ==
    IF ~Running(m) THEN m
    ELSE IF ~reg_ok(reg_a) THEN Raise(m, "IndexError")
    ELSE IF m.fdiv # <<>> THEN Raise(m, "TypeError")
    ELSE [m EXCEPT !.reg[reg_a] = Mask8(@)]

alu(m, op, reg_a, reg_b) ==
    IF ~Running(m) THEN m
    ELSE alu_mask(
           CASE op \in Binary -> alu_binary(m, op, reg_a, reg_b)
             [] op \in Unary  -> alu_unary(m, op, reg_a)
             [] op = "DIV"    -> alu_DIV(m, reg_a, reg_b)
             [] op = "MOD"    -> alu_MOD(m, reg_a, reg_b)
             [] op = "CMP"    -> alu_CMP(m, reg_a, reg_b),
           reg_a)

\* ---------------------------------------------------------------- handlers
JMP(m, register) ==
    IF ~Running(m) THEN m
    ELSE IF ~reg_ok(register) THEN Raise(m, "IndexError")
    ELSE [m EXCEPT !.ir = m.reg[register]]

\* CALL that pushes the address of its own operand, not of the next instruction.
CALL_off_by_one(m, register) ==
    LET m1 == alu(m, "DEC", SP, 0)
        m2 == ram_write(m1, m1.reg[SP], m1.ir + 1)
    IN JMP(m2, register)

CALL(m, register) ==
    LET m1 == alu(m, "DEC", SP, 0)
        m2 == ram_write(m1, m1.reg[SP], m1.ir + 2)
    IN JMP(m2, register)

INT(m, register) ==
    IF ~Running(m) THEN m
    ELSE IF ~reg_ok(register) THEN Raise(m, "IndexError")
    ELSE [m EXCEPT !.reg[IS] = BitOr(@, Pow2(m.reg[register]))]

\* "if flags & mask: ir = reg[register] / else: ir += 2" of the six
\* conditional jumps; taken says which branch runs.
jump_if(m, taken, register) ==
    IF ~Running(m) THEN m
    ELSE IF taken THEN JMP(m, register)
    ELSE [m EXCEPT !.ir = @ + 2]

JEQ(m, register) == jump_if(m, BitAnd(m.flags, 1) # 0, register)

JGE(m, register) == jump_if(m, BitAnd(m.flags, 5) # 0, register)

JGT(m, register) == jump_if(m, BitAnd(m.flags, 4) # 0, register)

JLE(m, register) == jump_if(m, BitAnd(m.flags, 3) # 0, register)

JLT(m, register) == jump_if(m, BitAnd(m.flags, 2) # 0, register)

JNE(m, register) == jump_if(m, BitAnd(m.flags, 1) = 0, register)

LD(m, registerA, registerB) ==
    IF ~Running(m) THEN m
    ELSE IF ~reg_ok(registerB) THEN Raise(m, "IndexError")
    ELSE IF ~ram_ok(m.reg[registerB]) THEN Raise(m, "IndexError")
    ELSE IF ~reg_ok(registerA) THEN Raise(m, "IndexError")
    ELSE [m EXCEPT !.reg[registerA] = m.ram[m.reg[registerB]]]

LDI(m, register, immediate) ==
    IF ~Running(m) THEN m
    ELSE IF ~reg_ok(register) THEN Raise(m, "IndexError")
    ELSE [m EXCEPT !.reg[register] = immediate]

NOP(m) == m

POP(m, register) ==
    IF ~Running(m) THEN m
    ELSE IF ~ram_ok(m.reg[SP]) THEN Raise(m, "IndexError")
    ELSE IF ~reg_ok(register) THEN Raise(m, "IndexError")
    ELSE alu([m EXCEPT !.reg[register] = m.ram[m.reg[SP]]], "INC", SP, 0)

PRA(m, register) ==
    IF ~Running(m) THEN m
    ELSE IF ~reg_ok(register) THEN Raise(m, "IndexError")
    ELSE [m EXCEPT !.out = Append(@, <<"PRA", m.reg[register]>>)]

\* PRN that prints the register's number instead of its value.
PRN_prints_index(m, register) ==
    IF ~Running(m) THEN m
    ELSE IF ~reg_ok(register) THEN Raise(m, "IndexError")
    ELSE [m EXCEPT !.out = Append(@, <<"PRN", register>>)]

PRN(m, register) ==
    IF ~Running(m) THEN m
    ELSE IF ~reg_ok(register) THEN Raise(m, "IndexError")
    ELSE [m EXCEPT !.out = Append(@, <<"PRN", m.reg[register]>>)]

\* PUSH that writes before it decrements: the value lands one cell too high.
PUSH_write_first(m, register) ==
    IF ~Running(m) THEN m
    ELSE IF ~reg_ok(register) THEN Raise(m, "IndexError")
    ELSE alu(ram_write(m, m.reg[SP], m.reg[register]), "DEC", SP, 0)

PUSH(m, register) ==
    LET m1 == alu(m, "DEC", SP, 0)
    IN IF ~Running(m1) THEN m1
       ELSE IF ~reg_ok(register) THEN Raise(m1, "IndexError")
       ELSE ram_write(m1, m1.reg[SP], m1.reg[register])

RET(m) ==
    IF ~Running(m) THEN m
    ELSE IF ~ram_ok(m.reg[SP]) THEN Raise(m, "IndexError")
    ELSE alu([m EXCEPT !.ir = m.ram[m.reg[SP]]], "INC", SP, 0)

ST(m, registerA, registerB) ==
    IF ~Running(m) THEN m
    ELSE IF ~reg_ok(registerA) \/ ~reg_ok(registerB) THEN Raise(m, "IndexError")
    ELSE ram_write(m, m.reg[registerA], m.reg[registerB])

\* "self.flags = self.ram_read(self.reg[7]); alu INC" and the same for ir.
IRET_tail(m) ==
    IF ~Running(m) THEN m
    ELSE LET m1 == alu([m EXCEPT !.flags = m.ram[m.reg[SP]]], "INC", SP, 0)
         IN alu([m1 EXCEPT !.ir = m1.ram[m1.reg[SP]]], "INC", SP, 0)

IRET(m) ==
    IRET_tail(POP(POP(POP(POP(POP(POP(POP(m, 6), 5), 4), 3), 2), 1), 0))

\* --------------------------------------------------------------- interrupt
interrupt(m, i_num) ==
    LET m0 == [m EXCEPT !.reg[IS] = ClearBit(@, i_num)]
        m1 == alu(m0, "DEC", SP, 0)
        m2 == ram_write(m1, m1.reg[SP], m1.pc)
        m3 == alu(m2, "DEC", SP, 0)
        m4 == ram_write(m3, m3.reg[SP], m3.flags)
        m5 == POP(POP(POP(POP(POP(POP(POP(m4, 0), 1), 2), 3), 4), 5), 6)
    IN IF ~Running(m5) THEN m5
       ELSE [m5 EXCEPT !.pc = BitOr(i_num, 248)]

\* ---------------------------------------------------------------- run loop
\* The byte the next fetch reads, -1 when pc is no index of ram.
Fetched == IF ram_ok(pc) THEN ram[pc] ELSE -1

Mnemonic ==
    IF Fetched = -1 THEN "fault"
    ELSE IF Fetched \in DOMAIN disp_table THEN disp_table[Fetched]
    ELSE "unrecognized"

\* The operand bytes after the opcode, -1 where there is none to read.
Operand(k) ==
    IF Fetched # -1 /\ Fetched \div 64 >= k /\ ram_ok(pc + k) THEN ram[pc + k] ELSE -1

\* getattr(self, disp_table[self.pc]) called with the operands read.
method(m, name, a, b) ==
    CASE name = "HLT"  -> HLT(m)
      [] name = "IRET" -> IRET(m)
      [] name = "NOP"  -> NOP(m)
      [] name = "RET"  -> RET(m)
      [] name = "CALL" -> CALL(m, a)
      [] name = "INT"  -> INT(m, a)
      [] name = "JEQ"  -> JEQ(m, a)
      [] name = "JGE"  -> JGE(m, a)
      [] name = "JGT"  -> JGT(m, a)
      [] name = "JLE"  -> JLE(m, a)
      [] name = "JLT"  -> JLT(m, a)
      [] name = "JMP"  -> JMP(m, a)
      [] name = "JNE"  -> JNE(m, a)
      [] name = "POP"  -> POP(m, a)
      [] name = "PRA"  -> PRA(m, a)
      [] name = "PRN"  -> PRN(m, a)
      [] name = "PUSH" -> PUSH(m, a)
      [] name = "LD"   -> LD(m, a, b)
      [] name = "LDI"  -> LDI(m, a, b)
      [] name = "ST"   -> ST(m, a, b)

\* "if not self.pc & 0b00010000: self.ir += width" and then "self.pc = self.ir".
advance(m, opcode, width) ==
    IF ~Running(m) THEN m
    ELSE LET m1 == IF BitAnd(opcode, 16) = 0 THEN [m EXCEPT !.ir = @ + width] ELSE m
         IN [m1 EXCEPT !.pc = m1.ir]

unrecognized(m) ==
    [m EXCEPT !.out = Append(@, <<"ERROR: Unrecognized command", m.pc>>),
              !.flags = BitOr(@, HaltBit)]

\* The three branches on self.pc >> 6, f being the machine after the fetch.
dispatch(f) ==
    LET opcode == f.pc
        name == disp_table[opcode]
        isalu == BitAnd(opcode, 32) # 0
    IN IF opcode \div 64 = 0 THEN advance(method(f, name, 0, 0), opcode, 1)
       ELSE IF opcode \div 64 = 1 THEN
           IF ~ram_ok(f.ir + 1) THEN Raise(f, "IndexError")
           ELSE LET a == f.ram[f.ir + 1]
                IN advance(IF isalu THEN alu(f, name, a, 0) ELSE method(f, name, a, 0),
                           opcode, 2)
       ELSE
           IF ~ram_ok(f.ir + 1) \/ ~ram_ok(f.ir + 2) THEN Raise(f, "IndexError")
           ELSE LET a == f.ram[f.ir + 1]
                    b == f.ram[f.ir + 2]
                IN advance(IF isalu THEN alu(f, name, a, b) ELSE method(f, name, a, b),
                           opcode, 3)

\* "self.ir = self.pc; self.pc = self.ram_read(self.pc)" and what follows.
fetch_execute(m) ==
    IF ~ram_ok(m.pc) THEN Raise([m EXCEPT !.ir = m.pc], "IndexError")
    ELSE LET f == [m EXCEPT !.ir = m.pc, !.pc = m.ram[m.pc]]
         IN IF f.pc \in DOMAIN disp_table THEN dispatch(f) ELSE unrecognized(f)

Commit(m) ==
    /\ reg' = m.reg
    /\ ram' = m.ram
    /\ pc' = m.pc
    /\ ir' = m.ir
    /\ flags' = m.flags
    /\ out' = m.out
    /\ exc' = m.exc
    /\ fdiv' = m.fdiv

Halted(f) == BitAnd(f, HaltBit) # 0

\* What hist keeps of a delivery or an executed instruction: the state it
\* started from.
Entry(kind, name, n) ==
    [kind |-> kind, op |-> name, n |-> n, a |-> Operand(1), b |-> Operand(2),
     p |-> pc, reg |-> reg, flags |-> flags,
     top |-> IF ram_ok(reg[SP]) THEN ram[reg[SP]] ELSE -1,
     key |-> polled[2], step |-> steps]

Log(e) == IF Len(hist) < HistLen THEN Append(hist, e) ELSE Append(Tail(hist), e)

\* time() and the keyboard poll.  tick: the clock's second changed since the
\* last call; key: the code of the key pressed, NoKey when kbhit() is false.
Keys == {65, 955}

Poll(tick, key) ==
    /\ at = "poll"
    /\ steps < MaxSteps
    /\ events + (IF tick THEN 1 ELSE 0) + (IF key # NoKey THEN 1 ELSE 0) <= MaxEvents
    /\ reg' = [reg EXCEPT ![IS] =
                 BitOr(BitOr(@, IF tick THEN 1 ELSE 0), IF key # NoKey THEN 2 ELSE 0)]
    /\ ram' = IF key # NoKey THEN [ram EXCEPT ![KeyPressed] = key] ELSE ram
    /\ events' = events + (IF tick THEN 1 ELSE 0) + (IF key # NoKey THEN 1 ELSE 0)
    /\ steps' = steps + 1
    /\ polled' = <<tick, key>>
    /\ at' = "check"
    /\ UNCHANGED <<pc, ir, flags, out, exc, fdiv, hist>>

\* A check that looks at the status bit only and ignores the mask.
Pending_unmasked(i) == BitAnd(reg[IS], Pow2(i)) # 0

Pending(i) == BitAnd(BitAnd(reg[IM], Pow2(i)), BitAnd(reg[IS], Pow2(i))) # 0

Interrupt ==
    /\ at = "check"
    /\ \E i_num \in 0..7 :
         /\ Pending(i_num)
         /\ \A j \in 0..(i_num - 1) : ~Pending(j)
         /\ Commit(interrupt(Cur, i_num))
         /\ hist' = Log(Entry("irq", "", i_num))
    /\ at' = "fetch"
    /\ UNCHANGED <<steps, events, polled>>

NoInterrupt ==
    /\ at = "check"
    /\ \A i_num \in 0..7 : ~Pending(i_num)
    /\ at' = "fetch"
    /\ UNCHANGED <<reg, ram, pc, ir, flags, out, exc, fdiv, steps, events, polled, hist>>

\* One fetch-decode-execute, and the loop test that follows it.
Step(name) ==
    /\ at = "fetch"
    /\ Commit(fetch_execute(Cur))
    /\ hist' = Log(Entry("exec", name, 0))
    /\ at' = IF exc' # "none" \/ Halted(flags') THEN "done" ELSE "poll"
    /\ UNCHANGED <<steps, events, polled>>

StepALU ==
    /\ Mnemonic \in AluOps
    /\ Step(Mnemonic)

StepCALL ==
    /\ Mnemonic = "CALL"
    /\ Step("CALL")

StepHLT ==
    /\ Mnemonic = "HLT"
    /\ Step("HLT")

StepINT ==
    /\ Mnemonic = "INT"
    /\ Step("INT")

StepIRET ==
    /\ Mnemonic = "IRET"
    /\ Step("IRET")

StepJEQ ==
    /\ Mnemonic = "JEQ"
    /\ Step("JEQ")

StepJGE ==
    /\ Mnemonic = "JGE"
    /\ Step("JGE")

StepJGT ==
    /\ Mnemonic = "JGT"
    /\ Step("JGT")

StepJLE ==
    /\ Mnemonic = "JLE"
    /\ Step("JLE")

StepJLT ==
    /\ Mnemonic = "JLT"
    /\ Step("JLT")

StepJMP ==
    /\ Mnemonic = "JMP"
    /\ Step("JMP")

StepJNE ==
    /\ Mnemonic = "JNE"
    /\ Step("JNE")

StepLD ==
    /\ Mnemonic = "LD"
    /\ Step("LD")

StepLDI ==
    /\ Mnemonic = "LDI"
    /\ Step("LDI")

StepNOP ==
    /\ Mnemonic = "NOP"
    /\ Step("NOP")

StepPOP ==
    /\ Mnemonic = "POP"
    /\ Step("POP")

StepPRA ==
    /\ Mnemonic = "PRA"
    /\ Step("PRA")

StepPRN ==
    /\ Mnemonic = "PRN"
    /\ Step("PRN")

StepPUSH ==
    /\ Mnemonic = "PUSH"
    /\ Step("PUSH")

StepRET ==
    /\ Mnemonic = "RET"
    /\ Step("RET")

StepST ==
    /\ Mnemonic = "ST"
    /\ Step("ST")

StepUnrecognized ==
    /\ Mnemonic = "unrecognized"
    /\ Step("unrecognized")

StepFault ==
    /\ Mnemonic = "fault"
    /\ Step("fault")


\* ---------------------------------------------------------------- programs
\* load(): the file's bytes from address 0 on, over the zeroed memory.
load(code) == [x \in Addr |-> IF x < Len(code) THEN code[x + 1] ELSE 0]

\* The same file with code further up (zero bytes in between).
with(img, base, code) ==
    [x \in Addr |-> IF x >= base /\ x < base + Len(code) THEN code[x - base + 1] ELSE img[x]]

AluPairs == {0, 7, 255} \X {0, 1, 2, 255}
CmpPairs == {<<1, 2>>, <<2, 1>>, <<1, 1>>}
Jumps == {"JMP", "JEQ", "JNE", "JGT", "JLT", "JGE", "JLE"}
StackStarts == {<<255, 0>>, <<255, 243>>, <<0, 245>>}
Target == 32

ProgAlu2 ==
    { load(<<Opc("LDI"), 0, ab[1], Opc("LDI"), 1, ab[2], Opc(op), 0, 1, Opc("HLT")>>) :
        op \in Binary \cup {"DIV", "MOD"}, ab \in AluPairs }

ProgAluSame ==
    { load(<<Opc("LDI"), 0, x, Opc(op), 0, 0, Opc("HLT")>>) :
        op \in Binary \cup {"DIV", "MOD"}, x \in {7, 255} }

ProgAlu1 ==
    { load(<<Opc("LDI"), 0, x, Opc(op), 0, Opc("HLT")>>) : op \in Unary, x \in {0, 7, 255} }

ProgCmp ==
    { with(load(<<Opc("LDI"), 0, ab[1], Opc("LDI"), 1, ab[2], Opc("LDI"), 2, Target,
                  Opc("CMP"), 0, 1, Opc("CMP"), 0, 1, Opc(j), 2, Opc("HLT")>>),
           Target, <<Opc("HLT")>>) :
        j \in Jumps, ab \in CmpPairs }

ProgDivZero ==
    { load(<<Opc("LDI"), 0, 10, Opc("LDI"), 1, 0, Opc(op), 0, 1, Opc("PRN"), 0, Opc("HLT")>>) :
        op \in {"DIV", "MOD"} }

ProgStack ==
    { load(<<Opc("LDI"), 5, ms[1], Opc("LDI"), 7, ms[2],
             Opc("LDI"), r, (IF r = 7 THEN ms[2] ELSE IF r = 5 THEN ms[1] ELSE 42),
             Opc("PUSH"), r, Opc("POP"), r, Opc("HLT")>>) :
        ms \in StackStarts, r \in RegIdx }

ProgCall ==
    { with(load(<<Opc("LDI"), r, Target, Opc("CALL"), r, Opc("HLT")>>), Target, sub) :
        r \in {1, 7},
        sub \in {<<Opc("RET")>>, <<Opc("NOP"), Opc("RET")>>,
                 <<Opc("PUSH"), 0, Opc("POP"), 0, Opc("RET")>>} }

\* A vector table entry is stored, then interrupt n is raised with INT.
ProgInt ==
    { with(load(<<Opc("LDI"), 0, 248 + n, Opc("LDI"), 1, v, Opc("ST"), 0, 1,
                  Opc("LDI"), 2, n, Opc("INT"), 2, Opc("HLT")>>),
           80, <<Opc("IRET")>>) :
        n \in {0, 1, 7}, v \in {80, Opc("IRET")} }

ProgMisc ==
    { load(<<Opc("LDI"), 0, 8, Opc("PRN"), 0, Opc("HLT")>>),
      load(<<Opc("LDI"), 0, 244, Opc("LD"), 1, 0, Opc("PRN"), 1, Opc("PRA"), 1,
             Opc("NOP"), Opc("HLT")>>),
      load(<<Opc("LDI"), 2, 8, Opc("INT"), 2, Opc("HLT")>>),
      load(<<255>>),
      load(<<Opc("NOP"), Opc("NOP"), Opc("NOP"), 3>>),
      load(<<Opc("LDI"), 0, 254, Opc("JMP"), 0>>),
      load(<<Opc("LDI"), 8, 1, Opc("HLT")>>),
      load(<<Opc("LDI"), 5, 0, Opc("LDI"), 0, 1, Opc("INT"), 0, Opc("HLT")>>) }

Programs ==
    ProgAlu2 \cup ProgAluSame \cup ProgAlu1 \cup ProgCmp \cup ProgDivZero
        \cup ProgStack \cup ProgCall \cup ProgInt \cup ProgMisc

\* ------------------------------------------------------------ specification
Init ==
    /\ reg = [r \in RegIdx |-> IF r = IM THEN 255 ELSE IF r = SP THEN 243 ELSE 0]
    /\ ram \in Programs
    /\ pc = 0
    /\ ir = 0
    /\ flags = 0
    /\ out = <<>>
    /\ exc = "none"
    /\ fdiv = <<>>
    /\ at = "poll"
    /\ steps = 0
    /\ events = 0
    /\ polled = <<FALSE, NoKey>>
    /\ hist = <<>>

Next ==
    \/ \E tick \in BOOLEAN, key \in {NoKey} \cup Keys : Poll(tick, key)
    \/ Interrupt
    \/ NoInterrupt
    \/ StepALU
    \/ StepCALL
    \/ StepHLT
    \/ StepINT
    \/ StepIRET
    \/ StepJEQ
    \/ StepJGE
    \/ StepJGT
    \/ StepJLE
    \/ StepJLT
    \/ StepJMP
    \/ StepJNE
    \/ StepLD
    \/ StepLDI
    \/ StepNOP
    \/ StepPOP
    \/ StepPRA
    \/ StepPRN
    \/ StepPUSH
    \/ StepRET
    \/ StepST
    \/ StepUnrecognized
    \/ StepFault

Spec == Init /\ [][Next]_vars

\* ------------------------------------------------------------------ claims
Last == hist[Len(hist)]
Prev == hist[Len(hist) - 1]

\* The state a fetch-decode-execute has just left.
JustRan == at \in {"poll", "done"} /\ hist # <<>> /\ Last.kind = "exec"

\* The state interrupt() has just left.
JustDelivered == at = "fetch" /\ hist # <<>> /\ Last.kind = "irq"

\* The instruction before the last one ran with no delivery in between.
RanBefore == Len(hist) >= 2 /\ Prev.kind = "exec"

Byte(x) == x \in 0..255

BitOf(x, i) == (x \div Pow2(i)) % 2

\* The bitwise operations on bytes, bit by bit.
Bitwise(x, y, F(_, _)) ==
    F(BitOf(x, 0), BitOf(y, 0)) + 2 * F(BitOf(x, 1), BitOf(y, 1))
      + 4 * F(BitOf(x, 2), BitOf(y, 2)) + 8 * F(BitOf(x, 3), BitOf(y, 3))
      + 16 * F(BitOf(x, 4), BitOf(y, 4)) + 32 * F(BitOf(x, 5), BitOf(y, 5))
      + 64 * F(BitOf(x, 6), BitOf(y, 6)) + 128 * F(BitOf(x, 7), BitOf(y, 7))

AndBit(i, j) == IF i = 1 /\ j = 1 THEN 1 ELSE 0
OrBit(i, j) == IF i = 1 \/ j = 1 THEN 1 ELSE 0
XorBit(i, j) == IF i # j THEN 1 ELSE 0

\* The mathematical result of an ALU operation on bytes a and b, modulo 256.
Expected(op, a, b) ==
    CASE op = "ADD" -> (a + b) % 256
      [] op = "SUB" -> (a - b) % 256
      [] op = "MUL" -> (a * b) % 256
      [] op = "DIV" -> (a \div b) % 256
      [] op = "MOD" -> (a % b) % 256
      [] op = "AND" -> Bitwise(a, b, AndBit)
      [] op = "OR"  -> Bitwise(a, b, OrBit)
      [] op = "XOR" -> Bitwise(a, b, XorBit)
      [] op = "NOT" -> 255 - a
      [] op = "SHL" -> IF b >= 8 THEN 0 ELSE (a * Pow2(b)) % 256
      [] op = "SHR" -> IF b >= 8 THEN 0 ELSE a \div Pow2(b)
      [] op = "INC" -> (a + 1) % 256
      [] op = "DEC" -> (a - 1) % 256

\* The last instruction was ALU operation op on registers holding bytes, with
\* a divisor that is not zero.
AluCase(ops) ==
    /\ JustRan
    /\ Last.op \in ops
    /\ reg_ok(Last.a)
    /\ Byte(Last.reg[Last.a])
    /\ Last.op \notin Unary =>
         /\ reg_ok(Last.b)
         /\ Byte(Last.reg[Last.b])
         /\ Last.op \in {"DIV", "MOD"} => Last.reg[Last.b] # 0

AluStored ==
    /\ exc = "none"
    /\ reg[Last.a] =
         Expected(Last.op, Last.reg[Last.a],
                  IF Last.op \in Unary THEN 0 ELSE Last.reg[Last.b])

\* C1: every ALU operation (ADD, SUB, MUL, DIV, MOD, AND, OR, XOR, NOT, SHL,
\* SHR, INC, DEC) on bytes a and b (b not zero for DIV and MOD) stores in the
\* first register the mathematical result modulo 256.
C1_AluStoresResult == AluCase(AluOps \ {"CMP"}) => AluStored

\* C1, for every operation but DIV: this much of the claim holds.
C1_AllButDiv == AluCase(AluOps \ {"CMP", "DIV"}) => AluStored

C1_AllButDivWitness ==
    /\ AluCase({"ADD"})
    /\ Last.reg[Last.a] = 255
    /\ Last.reg[Last.b] = 1
    /\ reg[Last.a] = 0

\* ----------------------------------------------------------------------- C2
Equal == BitAnd(flags, 1) # 0
Greater == BitAnd(flags, 2) # 0
Less == BitAnd(flags, 4) # 0

CmpCase == JustRan /\ Last.op = "CMP" /\ exc = "none"

\* The CMP before the last one was the same CMP: the same two registers,
\* holding the same two values.
SameCmpTwice ==
    /\ CmpCase
    /\ RanBefore
    /\ Prev.op = "CMP"
    /\ Prev.a = Last.a
    /\ Prev.b = Last.b
    /\ Prev.reg[Prev.a] = Last.reg[Last.a]
    /\ Prev.reg[Prev.b] = Last.reg[Last.b]

\* C2: CMP Ra,Rb sets Equal (bit 0) iff a = b, Greater-than (bit 1) iff a > b
\* and Less-than (bit 2) iff a < b, so exactly one of the three is set; it
\* leaves the Halt bit (and bits 3 to 6) as they were; the same CMP executed a
\* second time leaves the flags byte unchanged.
C2_CmpFlags ==
    /\ CmpCase =>
         LET a == Last.reg[Last.a]
             b == Last.reg[Last.b]
         IN /\ Equal <=> a = b
            /\ Greater <=> a > b
            /\ Less <=> a < b
            /\ Cardinality({i \in 0..2 : BitOf(flags, i) = 1}) = 1
            /\ BitAnd(flags, HaltBit) = BitAnd(Last.flags, HaltBit)
            /\ flags \div 8 = Last.flags \div 8
    /\ SameCmpTwice => flags = Last.flags

C2_Witness ==
    /\ SameCmpTwice
    /\ Last.reg[Last.a] > Last.reg[Last.b]
    /\ Greater
    /\ ~Less

\* ----------------------------------------------------------------------- C3
Relation(j, a, b) ==
    CASE j = "JEQ" -> a = b
      [] j = "JNE" -> a # b
      [] j = "JGT" -> a > b
      [] j = "JLT" -> a < b
      [] j = "JGE" -> a >= b
      [] j = "JLE" -> a <= b
      [] j = "JMP" -> TRUE

\* A jump of the set js ran right after a CMP, no delivery in between.
JumpCase(js) ==
    /\ JustRan
    /\ Last.op \in js
    /\ reg_ok(Last.a)
    /\ Last.op # "JMP" =>
         /\ RanBefore
         /\ Prev.op = "CMP"
         /\ reg_ok(Prev.a)
         /\ reg_ok(Prev.b)

JumpDone ==
    LET taken == Last.op = "JMP" \/ Relation(Last.op, Prev.reg[Prev.a], Prev.reg[Prev.b])
    IN /\ exc = "none"
       /\ pc = IF taken THEN Last.reg[Last.a] ELSE Last.p + 2

\* C3: a conditional jump executed right after CMP Ra,Rb sets the program
\* counter to the value of its register exactly when its relation holds (JEQ
\* a = b, JNE a # b, JGT a > b, JLT a < b, JGE a >= b, JLE a <= b) and to the
\* address of the jump plus 2 otherwise; JMP always jumps.
C3_JumpFollowsRelation == JumpCase(Jumps) => JumpDone

\* C3, for JMP, JEQ and JNE: this much of the claim holds.
C3_EqualityJumps == JumpCase({"JMP", "JEQ", "JNE"}) => JumpDone

C3_EqualityJumpsWitness ==
    /\ JumpCase({"JNE"})
    /\ Prev.reg[Prev.a] # Prev.reg[Prev.b]
    /\ pc = Target

\* ----------------------------------------------------------------------- C4
\* Entry e is a DIV or MOD whose second register held 0.
ByZero(e) ==
    /\ e.kind = "exec"
    /\ e.op \in {"DIV", "MOD"}
    /\ reg_ok(e.a)
    /\ reg_ok(e.b)
    /\ e.reg[e.b] = 0

\* Memory still holds LDI R0,10; LDI R1,0; DIV R0,R1; PRN R0; HLT at 0.
Scenario2 ==
    \A x \in 0..11 :
       ram[x] = <<Opc("LDI"), 0, 10, Opc("LDI"), 1, 0, Opc("DIV"), 0, 1,
                  Opc("PRN"), 0, Opc("HLT")>>[x + 1]

\* C4: DIV or MOD with 0 in the second register sets the Halt flag and leaves
\* the first register (a byte) unchanged, and the machine executes nothing
\* after it; in LDI R0,10; LDI R1,0; DIV R0,R1; PRN R0; HLT the PRN is never
\* executed and PRN prints nothing.
C4_DivideByZeroHalts ==
    /\ (JustRan /\ ByZero(Last) /\ Byte(Last.reg[Last.a])) =>
         /\ Halted(flags)
         /\ exc = "none"
         /\ reg[Last.a] = Last.reg[Last.a]
    /\ \A i \in 1..Len(hist) : ByZero(hist[i]) => (i = Len(hist) /\ at = "done")
    /\ Scenario2 =>
         /\ \A i \in 1..Len(hist) : hist[i].op # "PRN"
         /\ \A k \in 1..Len(out) : out[k][1] # "PRN"

C4_Witness ==
    /\ Scenario2
    /\ JustRan
    /\ ByZero(Last)
    /\ Last.reg[Last.a] = 10
    /\ reg[0] = 10
    /\ Halted(flags)
    /\ at = "done"
    /\ out = <<<<"ERROR: DIVIDE BY ZERO", 0>>>>

\* ----------------------------------------------------------------------- C5
\* The stack pointer after one decrement / nine decrements from s.
Dec(s, k) == (s - k) % 256

PushCase ==
    /\ JustRan
    /\ Last.op = "PUSH"
    /\ reg_ok(Last.a)
    /\ Byte(Last.reg[SP])

\* PUSH has written the register's value at the decremented stack pointer
\* (for R7 the value it holds when written, the decremented pointer itself).
PushDone ==
    /\ exc = "none"
    /\ reg[SP] = Dec(Last.reg[SP], 1)
    /\ ram[Dec(Last.reg[SP], 1)] =
         IF Last.a = SP THEN Dec(Last.reg[SP], 1) ELSE Last.reg[Last.a]

\* POP Rr ran right after PUSH Rr, no delivery in between.
PushPopCase ==
    /\ JustRan
    /\ Last.op = "POP"
    /\ RanBefore
    /\ Prev.op = "PUSH"
    /\ reg_ok(Last.a)
    /\ Prev.a = Last.a
    /\ Byte(Prev.reg[SP])

PushPopDone ==
    /\ exc = "none"
    /\ reg[Last.a] = Prev.reg[Last.a]
    /\ reg[SP] = Prev.reg[SP]

\* The poll between the PUSH and the POP stored a key in the cell PUSH wrote.
KeyOnStack == Last.key # NoKey /\ Dec(Prev.reg[SP], 1) = KeyPressed

\* C5 as claimed: for every register r and starting stack pointer, PUSH Rr then
\* POP Rr with no interrupt delivered in between leaves Rr and the stack
\* pointer as before the PUSH; PUSH writes at the decremented stack pointer.
C5_PushPopRoundTrip ==
    /\ PushCase => PushDone
    /\ PushPopCase => PushPopDone

\* C5 as amended: the same, provided no key press is stored over the pushed
\* cell (address 0xF4) between the PUSH and the POP.
C5_PushPopNoKey ==
    /\ PushCase => PushDone
    /\ (PushPopCase /\ ~KeyOnStack) => PushPopDone

C5_Witness ==
    /\ PushPopCase
    /\ ~KeyOnStack
    /\ Prev.reg[SP] = 0
    /\ Last.reg[SP] = 255
    /\ Prev.reg[Last.a] = 42
    /\ reg[Last.a] = 42
    /\ reg[SP] = 0

\* ----------------------------------------------------------------------- C6
CallCase(e) ==
    /\ e.kind = "exec"
    /\ e.op = "CALL"
    /\ reg_ok(e.a)
    /\ Byte(e.reg[SP])

\* hist[i] is a CALL, the last instruction is a RET, only instructions (no
\* delivery) ran in between, and the RET found the stack pointer at its
\* post-CALL value with the pushed return address still in that cell.
CallRetCase(i) ==
    /\ JustRan
    /\ Last.op = "RET"
    /\ i \in 1..(Len(hist) - 1)
    /\ CallCase(hist[i])
    /\ \A k \in i..Len(hist) : hist[k].kind = "exec"
    /\ Last.reg[SP] = Dec(hist[i].reg[SP], 1)
    /\ Last.top = hist[i].p + 2

\* C6: CALL Rr at address p sets the program counter to the value of Rr (for
\* R7, the value CALL reads: the decremented stack pointer) and pushes p+2; a
\* later RET that finds the stack pointer at its post-CALL value and the pushed
\* cell intact, no interrupt delivered in between, sets the program counter to
\* p+2 and the stack pointer to its value before the CALL.
C6_CallRet ==
    /\ (JustRan /\ CallCase(Last)) =>
         /\ exc = "none"
         /\ pc = IF Last.a = SP THEN Dec(Last.reg[SP], 1) ELSE Last.reg[Last.a]
         /\ reg[SP] = Dec(Last.reg[SP], 1)
         /\ ram[reg[SP]] = Last.p + 2
    /\ \A i \in 1..HistLen :
         CallRetCase(i) =>
           /\ exc = "none"
           /\ pc = hist[i].p + 2
           /\ reg[SP] = hist[i].reg[SP]

C6_Witness ==
    /\ CallRetCase(Len(hist) - 2)
    /\ hist[Len(hist) - 2].p = 3
    /\ Prev.op = "NOP"
    /\ pc = 5
    /\ reg[SP] = 243

\* ----------------------------------------------------------------------- C7
\* C7: delivering interrupt n with program counter p and stack pointer s
\* pushes nine values: afterwards the stack pointer is s-9, memory at s-1
\* holds p, memory at s-2 holds the flags, and memory at s-3 down to s-9 holds
\* R0 .. R6 (R6 with pending bit n already cleared).
C7_DeliveryPushesNine ==
    (JustDelivered /\ Byte(Last.reg[SP])) =>
        LET s == Last.reg[SP]
        IN /\ reg[SP] = Dec(s, 9)
           /\ ram[Dec(s, 1)] = Last.p
           /\ ram[Dec(s, 2)] = Last.flags
           /\ \A k \in 0..6 :
                ram[Dec(s, 3 + k)] =
                  IF k = IS THEN ClearBit(Last.reg[IS], Last.n) ELSE Last.reg[k]

\* C7, the two pushes the code does make.
C7_ReturnAddressAndFlags ==
    (JustDelivered /\ Byte(Last.reg[SP])) =>
        /\ ram[Dec(Last.reg[SP], 1)] = Last.p
        /\ ram[Dec(Last.reg[SP], 2)] = Last.flags

\* ----------------------------------------------------------------------- C8
\* C8: after interrupt n is delivered the next instruction fetched is the one
\* at the address stored in cell 0xF8+n, not the cell 0xF8+n itself.
C8_VectorIsFollowed == JustDelivered => pc = ram[248 + Last.n]

\* ----------------------------------------------------------------------- C9
\* IRET ran right after a delivery, the stack untouched in between.
IretCase ==
    /\ JustRan
    /\ Last.op = "IRET"
    /\ Len(hist) >= 2
    /\ Prev.kind = "irq"
    /\ Byte(Prev.reg[SP])

\* C9: IRET undoes a delivery: program counter, flags, stack pointer and
\* R0..R5 are as before the delivery, R6 as before with bit n cleared.
C9_IretUndoesDelivery ==
    IretCase =>
        /\ exc = "none"
        /\ pc = Prev.p
        /\ flags = Prev.flags
        /\ reg[SP] = Prev.reg[SP]
        /\ \A k \in 0..5 : reg[k] = Prev.reg[k]
        /\ reg[IS] = ClearBit(Prev.reg[IS], Prev.n)

\* ---------------------------------------------------------------------- C10
\* C10: when the byte fetched at p is no opcode of disp_table the machine
\* sets the Halt flag and stops with the program counter still p, registers
\* and memory unchanged.
C10_UnrecognizedKeepsPc ==
    [][(at = "fetch" /\ Mnemonic = "unrecognized") =>
         /\ Halted(flags')
         /\ at' = "done"
         /\ pc' = pc
         /\ reg' = reg
         /\ ram' = ram]_vars

\* C10 without the program counter: this much of the claim holds.
C10_UnrecognizedHalts ==
    [][(at = "fetch" /\ Mnemonic = "unrecognized") =>
         /\ Halted(flags')
         /\ at' = "done"
         /\ pc' = Fetched
         /\ reg' = reg
         /\ ram' = ram]_vars

\* ---------------------------------------------------------------------- C11
\* An interrupt was delivered in the loop iteration the machine is in (or
\* ended in).
DeliveredNow == \E i \in 1..Len(hist) : hist[i].kind = "irq" /\ hist[i].step = steps

\* An instruction was fetched and executed in that iteration.
ExecutedNow == \E i \in 1..Len(hist) : hist[i].kind = "exec" /\ hist[i].step = steps

\* C11: in a cycle in which an interrupt is delivered no instruction is
\* fetched, decoded or executed; the first handler instruction runs only in a
\* later cycle, after the next polls.
C11_NoFetchInDeliveryCycle == ~(DeliveredNow /\ ExecutedNow)

\* ---------------------------------------------------------------------- C12
\* Memory still holds LDI R0,8; PRN R0; HLT at 0.
Scenario1 ==
    \A x \in 0..5 :
       ram[x] = <<Opc("LDI"), 0, 8, Opc("PRN"), 0, Opc("HLT")>>[x + 1]

\* The instructions executed so far, oldest first.
Executed == [i \in 1..Len(hist) |-> hist[i].op]

\* C12: with no clock change and no key press, LDI R0,8; PRN R0; HLT at
\* address 0 prints exactly one number, 8, then sets Halt and executes nothing
\* more; at the end pc is 6 and R0 is 8.
C12_PrintEight ==
    (Scenario1 /\ events = 0) =>
        /\ exc = "none"
        /\ \A i \in 1..Len(hist) : hist[i].kind = "exec"
        /\ Executed \in {<<>>, <<"LDI">>, <<"LDI", "PRN">>, <<"LDI", "PRN", "HLT">>}
        /\ out = (IF Len(hist) >= 2 THEN <<<<"PRN", 8>>>> ELSE <<>>)
        /\ Halted(flags) <=> Len(hist) = 3
        /\ Halted(flags) => (at = "done" /\ pc = 6 /\ reg[0] = 8)
        /\ at = "done" => Halted(flags)

C12_Witness ==
    /\ Scenario1
    /\ events = 0
    /\ at = "done"
    /\ Halted(flags)
    /\ out = <<<<"PRN", 8>>>>
    /\ Executed = <<"LDI", "PRN", "HLT">>

\* ---------------------------------------------------------------------- C13
\* C13: in every reachable state pc lies in 0..255 and no fetch is attempted
\* at 256 or above, whatever the program image and the events; a program of
\* NOPs that runs past its end wraps around.
C13_PcInRange == pc \in Addr /\ (at = "fetch" => Mnemonic # "fault")

\* ---------------------------------------------------------------------- C14
\* C14: every register R0..R7 holds a value in 0..255 in every reachable state.
C14_RegistersAreBytes == \A r \in RegIdx : reg[r] \in 0..255

\* ---------------------------------------------------------------------- C15
\* Bit n is set in both the mask R5 and the status R6 of the register file r.
Both(r, n) == BitOf(r[IM], n) = 1 /\ BitOf(r[IS], n) = 1

\* The delivery of the current cycle, when there is one, is the last entry.
DeliveredThisCycle == hist # <<>> /\ Last.kind = "irq" /\ Last.step = steps

\* C15: in every cycle an interrupt is delivered exactly when some n in 0..7
\* has bit n set in both R5 and R6 at the check; at most one is delivered per
\* cycle and it is the smallest such n; a masked interrupt is never delivered;
\* a delivery never comes after the cycle's instruction has started.
C15_DeliveryRule ==
    /\ at = "fetch" =>
          /\ DeliveredThisCycle <=> \E n \in 0..7 : Both(IF DeliveredThisCycle THEN Last.reg ELSE reg, n)
          /\ ~DeliveredThisCycle => \A n \in 0..7 : ~Both(reg, n)
    /\ \A i \in 1..Len(hist) :
          hist[i].kind = "irq" =>
             /\ hist[i].n \in 0..7
             /\ Both(hist[i].reg, hist[i].n)
             /\ \A j \in 0..(hist[i].n - 1) : ~Both(hist[i].reg, j)
             /\ \A k \in 1..Len(hist) :
                   (k # i /\ hist[k].step = hist[i].step) => (k = i + 1 /\ hist[k].kind = "exec")

\* Interrupt 0 is delivered while interrupt 1 is pending and unmasked too.
C15_Witness ==
    /\ at = "fetch"
    /\ DeliveredThisCycle
    /\ Last.n = 0
    /\ Both(Last.reg, 1)

\* No delivery in a cycle whose check saw a pending interrupt that is masked.
C15_MaskedWitness ==
    /\ at = "fetch"
    /\ ~DeliveredThisCycle
    /\ \E n \in 0..7 : BitOf(reg[IS], n) = 1 /\ BitOf(reg[IM], n) = 0

\* ---------------------------------------------------------------------- C16
\* C16: delivering interrupt n changes only the pending bit, the stack and pc:
\* right after the delivery R0..R5 and the flags are what they were before it
\* and R6 is its old value with bit n cleared.
C16_DeliveryFrame ==
    JustDelivered =>
        /\ \A k \in 0..5 : reg[k] = Last.reg[k]
        /\ flags = Last.flags
        /\ reg[IS] = ClearBit(Last.reg[IS], Last.n)

\* What does hold: the flags are kept, and R0 and R1 receive the flags and the
\* return address that were just stored.
C16_FlagsKept ==
    (JustDelivered /\ exc = "none") =>
        /\ flags = Last.flags
        /\ reg[0] = Last.flags
        /\ reg[1] = Last.p

\* ---------------------------------------------------------------------- C17
\* The number of operand bytes, from the two high bits of the opcode.
Width(opcode) == IF opcode \div 64 >= 2 THEN 2 ELSE opcode \div 64

\* Bit 4 of the opcode is clear: the handler does not set pc itself.
Bit4Clear(opcode) == BitOf(opcode, 4) = 0

\* The operands of entry e that name registers do name one of R0..R7.
WellFormed(e) ==
    /\ Width(Opc(e.op)) >= 1 => reg_ok(e.a)
    /\ (Width(Opc(e.op)) = 2 /\ e.op # "LDI") => reg_ok(e.b)

\* An instruction of the table with bit 4 clear and well-formed operands has
\* just run in a cycle that delivered no interrupt.
PlainCase ==
    /\ JustRan
    /\ Last.op \in {disp_table[o] : o \in DOMAIN disp_table}
    /\ Bit4Clear(Opc(Last.op))
    /\ WellFormed(Last)
    /\ \A i \in 1..Len(hist) : hist[i].kind = "irq" => hist[i].step # Last.step

\* C17: executing an opcode of the table with bit 4 clear at address p, in a
\* cycle with no delivery, leaves pc at p + 1 + k, k being its number of
\* operand bytes; DIV, MOD (by zero too) and HLT included.
C17_AdvanceByWidth == PlainCase => pc = Last.p + 1 + Width(Opc(Last.op))

\* The same for everything but a DIV with a non-zero divisor, over registers
\* that hold bytes.
C17_AllButDiv ==
    (/\ PlainCase
     /\ \A r \in RegIdx : Byte(Last.reg[r])
     /\ ~(Last.op = "DIV" /\ ~ByZero(Last)))
        => (exc = "none" /\ pc = Last.p + 1 + Width(Opc(Last.op)))

\* DIV by zero, MOD by zero and HLT advance pc like the rest.
C17_HaltingWitness ==
    /\ PlainCase
    /\ Halted(flags)
    /\ Last.op \in {"DIV", "MOD"}
    /\ ByZero(Last)
    /\ pc = Last.p + 3

\* ---------------------------------------------------------------------- C18
\* INT Rr has just run with Rr holding a number n in 0..7.
IntCase ==
    /\ JustRan
    /\ Last.op = "INT"
    /\ reg_ok(Last.a)
    /\ Last.reg[Last.a] \in 0..7
    /\ Byte(Last.reg[IS])

\* C18: INT Rr at address p, Rr holding n in 0..7, sets bit n of R6, leaves
\* the other bits of R6 as they were and leaves pc at p + 2, so that
\* INT Rr; HLT with every interrupt masked goes on to the HLT.
C18_IntAdvances ==
    IntCase =>
        /\ \A i \in 0..7 :
              BitOf(reg[IS], i) = (IF i = Last.reg[Last.a] THEN 1 ELSE BitOf(Last.reg[IS], i))
        /\ pc = Last.p + 2

\* What does hold: the bit is set, the others are kept, and pc stays at p.
C18_IntSetsBitAndStays ==
    IntCase =>
        /\ exc = "none"
        /\ \A i \in 0..7 :
              BitOf(reg[IS], i) = (IF i = Last.reg[Last.a] THEN 1 ELSE BitOf(Last.reg[IS], i))
        /\ pc = Last.p

\* Memory still holds LDI R5,0; LDI R0,1; INT R0; HLT at 0.
MaskedInt ==
    \A x \in 0..8 :
       ram[x] = <<Opc("LDI"), 5, 0, Opc("LDI"), 0, 1, Opc("INT"), 0, Opc("HLT")>>[x + 1]

\* With every interrupt masked and no events, that program is never past its
\* INT and never halts.
C18_MaskedIntNeverHalts ==
    (MaskedInt /\ events = 0) => (pc \in {0, 3, 6} /\ ~Halted(flags) /\ at # "done")

\* The INT of that program runs a second time.
C18_IntRunsAgain ==
    /\ MaskedInt
    /\ events = 0
    /\ IntCase
    /\ Len(hist) >= 2
    /\ Prev.kind = "exec"
    /\ Prev.op = "INT"
    /\ Prev.p = Last.p

\* ---------------------------------------------------------------------- C19
\* The run of LDI R0,8; PRN R0; HLT is over.  The program writes no mask,
\* executes no INT and installs no handler; without events it prints 8 and
\* halts with R0 = 8 and R1..R4 = 0 (C12_PrintEight).
Scenario1Over == Scenario1 /\ at = "done"

\* C19: a program that never writes R5, executes no INT and installs no
\* handler prints the same, ends with the same R0..R4 and halts or not
\* whatever clock changes and key presses are observed during its run: for
\* LDI R0,8; PRN R0; HLT every finished run prints 8 once and halts with
\* R0 = 8 and R1..R4 = 0.
C19_EventsDoNotMatter ==
    Scenario1Over =>
        /\ out = <<<<"PRN", 8>>>>
        /\ Halted(flags)
        /\ exc = "none"
        /\ reg[0] = 8
        /\ \A r \in 1..4 : reg[r] = 0

\* What does hold: whatever it has printed is a prefix of the output of the
\* run without events.
C19_OutputIsPrefix == Scenario1 => out \in {<<>>, <<<<"PRN", 8>>>>}

====
